---- MODULE Spec2Model ----
(***************************************************************************)
(* Model of the libnixstore glue of nixcp (src/bindings/nix.cpp, nix.hpp). *)
(*                                                                         *)
(* Four independent parts of the glue are modelled, each with its own      *)
(* specification over the shared variables:                                *)
(*   SpecInit    CNixStore::CNixStore, the one-time nix::initNix guard     *)
(*   SpecStream  RustSink and the channel to the asynchronous consumer     *)
(*   SpecStore   CNixStore::query_path_info / compute_fs_closure           *)
(*   SpecInfo    CPathInfo::sigs / CPathInfo::references                   *)
(***************************************************************************)
EXTENDS Integers, Sequences, FiniteSets, TLC

VARIABLES
    \* ---- CNixStore::CNixStore (nix.cpp:29-30, 80-90)
    g_init_nix_mutex,   \* owner of the global mutex, NoThread when free
    g_init_nix_done,    \* the completion flag
    pc,                 \* per thread: position inside the constructor
    store,              \* per thread: this->store of the handle being built
    outcome,            \* per thread: how its last construction ended
    constructions,      \* per thread: constructions started so far
    initCalls,          \* history: calls of nix::initNix
    initReturns,        \* history: normal returns of nix::initNix
    sawDone,            \* history: what each lock holder read from the flag
    \* ---- RustSink and the channel behind AsyncWriteSender (nix.cpp:41-51)
    prod,               \* position of the blocking producer (nar_from_path)
    produced,           \* history: the chunks the serializer wrote to the sink
    sinkThrew,          \* whether the last RustSink::operator() call threw
    chan,               \* messages in flight from the sender to the receiver
    rxDropped,          \* the consumer dropped the receiving end
    cons,               \* position of the asynchronous consumer
    received,           \* history: the messages the consumer received
    callsAfterDrop,     \* history: RustSink::operator() calls made after the drop
    \* ---- CNixStore::query_path_info / compute_fs_closure (nix.cpp:32-35, 92-109)
    validPaths,         \* the store: the paths present in it
    references,         \* the store: per present path, the paths it references
    deriver,            \* the store: per present path, its deriver or NoPath
    request,            \* the last request made of the handle, NoRequest at first
    engineCalls,        \* the store engine calls made for that request
    engineThrew,        \* whether the engine call of that request threw
    result,             \* what the request returned to the caller
    \* ---- CPathInfo::sigs / CPathInfo::references (nix.cpp:58-74)
    pi,                 \* the wrapped nix::ValidPathInfo: its sigs and references
    wrapped,            \* history: the record as it was when CPathInfo was built
    heap,               \* the vectors handed to the caller, by address
    calls               \* history: accessor calls, each with what it returned

initVars == <<g_init_nix_mutex, g_init_nix_done, pc, store, outcome,
              constructions, initCalls, initReturns, sawDone>>

streamVars == <<prod, produced, sinkThrew, chan, rxDropped, cons, received,
                callsAfterDrop>>

storeVars == <<validPaths, references, deriver, request, engineCalls,
               engineThrew, result>>

infoVars == <<pi, wrapped, heap, calls>>

vars == <<initVars, streamVars, storeVars, infoVars>>

\* ---------------------------------------------------------------- bounds
NumThreads == 2
MaxConstructions == 2
MaxChunks == 3
ChannelCapacity == 2
HashLen == 1
MaxRefs == 3
MaxCalls == 2

\* ------------------------------------------------ CNixStore::CNixStore()
NoThread == 0
Threads == 1..NumThreads

InitCtor ==
    /\ g_init_nix_mutex = NoThread
    /\ g_init_nix_done = FALSE
    /\ pc = [t \in Threads |-> "idle"]
    /\ store = [t \in Threads |-> "none"]
    /\ outcome = [t \in Threads |-> "none"]
    /\ constructions = [t \in Threads |-> 0]
    /\ initCalls = 0
    /\ initReturns = 0
    /\ sawDone = << >>

\* open_nix_store() -> std::make_unique<CNixStore>(): the constructor starts
\* (nix.cpp:111-113, 80-81).
open_nix_store(t) ==
    /\ pc[t] = "idle"
    /\ constructions[t] < MaxConstructions
    /\ pc' = [pc EXCEPT ![t] = "lock"]
    /\ store' = [store EXCEPT ![t] = "none"]
    /\ outcome' = [outcome EXCEPT ![t] = "none"]
    /\ constructions' = [constructions EXCEPT ![t] = @ + 1]
    /\ UNCHANGED <<streamVars, storeVars, infoVars>>
    /\ UNCHANGED <<g_init_nix_mutex, g_init_nix_done, initCalls, initReturns, sawDone>>

\* A mutex that does not exclude: the lock_guard is taken on a free or held mutex.
LockGuard_NoMutex(t) ==
    /\ pc[t] = "lock"
    /\ g_init_nix_mutex' = t
    /\ pc' = [pc EXCEPT ![t] = "check"]
    /\ UNCHANGED <<streamVars, storeVars, infoVars>>
    /\ UNCHANGED <<g_init_nix_done, store, outcome, constructions, initCalls, initReturns, sawDone>>

\* std::lock_guard<std::mutex> lock(g_init_nix_mutex) (nix.cpp:82).
LockGuard(t) ==
    /\ pc[t] = "lock"
    /\ g_init_nix_mutex = NoThread
    /\ g_init_nix_mutex' = t
    /\ pc' = [pc EXCEPT ![t] = "check"]
    /\ UNCHANGED <<streamVars, storeVars, infoVars>>
    /\ UNCHANGED <<g_init_nix_done, store, outcome, constructions, initCalls, initReturns, sawDone>>

\* if (!g_init_nix_done) { nix::initNix(); ... } (nix.cpp:84-85): the test, and
\* the entry into nix::initNix when the flag is clear.
CheckDone(t) ==
    /\ pc[t] = "check"
    /\ sawDone' = Append(sawDone, [done |-> g_init_nix_done, returns |-> initReturns])
    /\ IF ~g_init_nix_done
         THEN /\ pc' = [pc EXCEPT ![t] = "init"]
              /\ initCalls' = initCalls + 1
         ELSE /\ pc' = [pc EXCEPT ![t] = "open"]
              /\ initCalls' = initCalls
    /\ UNCHANGED <<streamVars, storeVars, infoVars>>
    /\ UNCHANGED <<g_init_nix_mutex, g_init_nix_done, store, outcome, constructions, initReturns>>

\* nix::initNix() returns normally (nix.cpp:85).
InitNixReturns(t) ==
    /\ pc[t] = "init"
    /\ initReturns' = initReturns + 1
    /\ pc' = [pc EXCEPT ![t] = "set"]
    /\ UNCHANGED <<streamVars, storeVars, infoVars>>
    /\ UNCHANGED <<g_init_nix_mutex, g_init_nix_done, store, outcome, constructions, initCalls, sawDone>>

\* The flag set although initNix threw.
InitNixThrows_SetsDone(t) ==
    /\ pc[t] = "init"
    /\ g_init_nix_done' = TRUE
    /\ g_init_nix_mutex' = NoThread
    /\ pc' = [pc EXCEPT ![t] = "idle"]
    /\ outcome' = [outcome EXCEPT ![t] = "init_failed"]
    /\ UNCHANGED <<streamVars, storeVars, infoVars>>
    /\ UNCHANGED <<store, constructions, initCalls, initReturns, sawDone>>

\* nix::initNix() throws (nix.cpp:85): the constructor unwinds, the
\* lock_guard releases the mutex, neither line 86 nor line 89 runs.
InitNixThrows(t) ==
    /\ pc[t] = "init"
    /\ g_init_nix_mutex' = NoThread
    /\ pc' = [pc EXCEPT ![t] = "idle"]
    /\ outcome' = [outcome EXCEPT ![t] = "init_failed"]
    /\ UNCHANGED <<streamVars, storeVars, infoVars>>
    /\ UNCHANGED <<g_init_nix_done, store, constructions, initCalls, initReturns, sawDone>>

\* g_init_nix_done = true (nix.cpp:86).
SetDone(t) ==
    /\ pc[t] = "set"
    /\ g_init_nix_done' = TRUE
    /\ pc' = [pc EXCEPT ![t] = "open"]
    /\ UNCHANGED <<streamVars, storeVars, infoVars>>
    /\ UNCHANGED <<g_init_nix_mutex, store, outcome, constructions, initCalls, initReturns, sawDone>>

\* this->store = nix::openStore(...) (nix.cpp:89-90): the store opens and the
\* constructor returns, releasing the mutex; or openStore throws and the
\* constructor unwinds, releasing the mutex.
OpenStore(t) ==
    /\ pc[t] = "open"
    /\ g_init_nix_mutex' = NoThread
    /\ pc' = [pc EXCEPT ![t] = "idle"]
    /\ \E ok \in BOOLEAN :
         IF ok
           THEN /\ store' = [store EXCEPT ![t] = "open"]
                /\ outcome' = [outcome EXCEPT ![t] = "ok"]
           ELSE /\ store' = store
                /\ outcome' = [outcome EXCEPT ![t] = "open_failed"]
    /\ UNCHANGED <<streamVars, storeVars, infoVars>>
    /\ UNCHANGED <<g_init_nix_done, constructions, initCalls, initReturns, sawDone>>

NextCtor ==
    \E t \in Threads :
        \/ open_nix_store(t)
        \/ LockGuard(t)
        \/ CheckDone(t)
        \/ InitNixReturns(t)
        \/ InitNixThrows(t)
        \/ SetDone(t)
        \/ OpenStore(t)

\* The constructor part at rest.
QuietCtor == InitCtor

\* ------------------------------------------- RustSink and the stream bridge
\* The chunks the archive serializer may write; the empty chunk is one of them.
Chunks == {<< >>, <<1>>}

ChunkMsg(bytes) == [type |-> "chunk", data |-> bytes]
EofMsg == [type |-> "eof", data |-> << >>]
ErrorMsg == [type |-> "error", data |-> << >>]

InitStream ==
    /\ prod = "idle"
    /\ produced = << >>
    /\ sinkThrew = FALSE
    /\ chan = << >>
    /\ rxDropped = FALSE
    /\ cons = "draining"
    /\ received = << >>
    /\ callsAfterDrop = 0

\* RBasePathSlice s((const unsigned char *)data.data(), data.size()) (nix.cpp:44):
\* a view of the first `size` bytes at `data`.
RSlice(data, size) == [ptr |-> data, len |-> size]

\* The bytes a slice views, copied out.
SliceBytes(s) == SubSeq(s.ptr, 1, s.len)

\* A send on the channel: it blocks while the channel is full, and fails at
\* once when the receiving end is gone.
ChannelSend(msg) ==
    /\ rxDropped \/ Len(chan) < ChannelCapacity
    /\ chan' = IF rxDropped THEN chan ELSE Append(chan, msg)

\* Whether the send being made fails.
SendFails == rxDropped

\* AsyncWriteSender::send(slice): one message per call, carrying a copy of the slice.
AsyncWriteSender_send(s) == ChannelSend(ChunkMsg(SliceBytes(s)))

\* AsyncWriteSender::eof(): the terminal message of a complete archive.
AsyncWriteSender_eof == ChannelSend(EofMsg)

\* A sink that swallows the failure of the send.
RustSink_call_SwallowsFailure(data) ==
    /\ AsyncWriteSender_send(RSlice(data, Len(data)))
    /\ sinkThrew' = FALSE

\* void RustSink::operator () (std::string_view data) (nix.cpp:43-47): wrap the
\* bytes in a slice and hand it to sender->send; nothing is caught, so a send
\* that fails leaves operator() by the exception.
RustSink_call(data) ==
    /\ AsyncWriteSender_send(RSlice(data, Len(data)))
    /\ sinkThrew' = SendFails

\* An eof() that sends nothing.
RustSink_eof_Nothing == chan' = chan

\* An eof() that signals the end by an empty chunk.
RustSink_eof_EmptyChunk == AsyncWriteSender_send(RSlice(<< >>, 0))

\* void RustSink::eof() (nix.cpp:49-51).
RustSink_eof == AsyncWriteSender_eof

\* nar_from_path starts on the blocking context: the sink is built around the
\* sender and the store's narFromPath is entered.
NarFromPath ==
    /\ prod = "idle"
    /\ prod' = "writing"
    /\ UNCHANGED <<initVars, storeVars, infoVars>>
    /\ UNCHANGED <<produced, sinkThrew, chan, rxDropped, cons, received, callsAfterDrop>>

\* The serializer writes its next chunk to the sink.
NarWrite ==
    /\ prod = "writing"
    /\ Len(produced) < MaxChunks
    /\ \E data \in Chunks :
         /\ RustSink_call(data)
         /\ produced' = Append(produced, data)
    /\ prod' = IF sinkThrew' THEN "cancelled" ELSE "writing"
    /\ callsAfterDrop' = callsAfterDrop + (IF rxDropped THEN 1 ELSE 0)
    /\ UNCHANGED <<initVars, storeVars, infoVars>>
    /\ UNCHANGED <<rxDropped, cons, received>>

\* The serializer returns: the archive is complete.
NarReturns ==
    /\ prod = "writing"
    /\ prod' = "eof"
    /\ UNCHANGED <<initVars, storeVars, infoVars>>
    /\ UNCHANGED <<produced, sinkThrew, chan, rxDropped, cons, received, callsAfterDrop>>

\* nar_from_path calls sink.eof() after the serializer returned.
SinkEof ==
    /\ prod = "eof"
    /\ RustSink_eof
    /\ prod' = "done"
    /\ UNCHANGED <<initVars, storeVars, infoVars>>
    /\ UNCHANGED <<produced, sinkThrew, rxDropped, cons, received, callsAfterDrop>>

\* The store engine fails while serializing, after any number of chunks.
NarThrows ==
    /\ prod = "writing"
    /\ prod' = "failing"
    /\ UNCHANGED <<initVars, storeVars, infoVars>>
    /\ UNCHANGED <<produced, sinkThrew, chan, rxDropped, cons, received, callsAfterDrop>>

\* An engine failure reported as the end of a complete archive.
ForwardError_AsEof ==
    /\ prod = "failing"
    /\ ChannelSend(EofMsg)
    /\ prod' = "failed"
    /\ UNCHANGED <<initVars, storeVars, infoVars>>
    /\ UNCHANGED <<produced, sinkThrew, rxDropped, cons, received, callsAfterDrop>>

\* The failure is caught on the blocking context and forwarded as the
\* terminal error message.
ForwardError ==
    /\ prod = "failing"
    /\ ChannelSend(ErrorMsg)
    /\ prod' = "failed"
    /\ UNCHANGED <<initVars, storeVars, infoVars>>
    /\ UNCHANGED <<produced, sinkThrew, rxDropped, cons, received, callsAfterDrop>>

\* The asynchronous side receives the next message; a terminal message resolves it.
Recv ==
    /\ cons = "draining"
    /\ chan # << >>
    /\ received' = Append(received, Head(chan))
    /\ chan' = Tail(chan)
    /\ cons' = CASE Head(chan).type = "eof" -> "ok"
                 [] Head(chan).type = "error" -> "err"
                 [] OTHER -> "draining"
    /\ UNCHANGED <<initVars, storeVars, infoVars>>
    /\ UNCHANGED <<prod, produced, sinkThrew, rxDropped, callsAfterDrop>>

\* The asynchronous caller abandons the request: the receiving end is dropped
\* with whatever the channel still holds.
Abandon ==
    /\ cons = "draining"
    /\ cons' = "abandoned"
    /\ rxDropped' = TRUE
    /\ chan' = << >>
    /\ UNCHANGED <<initVars, storeVars, infoVars>>
    /\ UNCHANGED <<prod, produced, sinkThrew, received, callsAfterDrop>>

ProducerStep ==
    \/ NarFromPath
    \/ NarWrite
    \/ NarReturns
    \/ SinkEof
    \/ NarThrows
    \/ ForwardError

NextStream ==
    \/ NarFromPath
    \/ NarWrite
    \/ NarReturns
    \/ SinkEof
    \/ NarThrows
    \/ ForwardError
    \/ Recv
    \/ Abandon

QuietStream == InitStream

\* --------------------------------- CNixStore::query_path_info / compute_fs_closure
\* Bytes are one-character strings. The store engine's path syntax, scaled
\* down: HashLen characters of the hash alphabet, a dash, one name character.
Alphabet == {"a", "e", "-", "/"}
HashChars == {"a"}
NameChars == {"a", "e", "-"}

ByteStrings(n) == UNION {[1..k -> Alphabet] : k \in 0..n}

\* The byte sequences a caller may pass.
Inputs == ByteStrings(HashLen + 2)

BaseName(h, n) == [i \in 1..HashLen |-> h] \o <<"-", n>>

\* The store paths of the model's stores.
AllPaths == {[baseName |-> BaseName("a", "a")],
             [baseName |-> BaseName("a", "e")],
             [baseName |-> BaseName("a", "-")]}

\* The one derivation of the model's stores, and its output.
Derivation == [baseName |-> BaseName("a", "e")]
Output == [baseName |-> BaseName("a", "a")]

NoPath == [baseName |-> << >>]
NoRequest == [op |-> "none"]

Ok(v) == [kind |-> "ok", value |-> v]
Error(e) == [kind |-> "error", error |-> e]

EdgeCount(refs) ==
    Cardinality({pq \in (DOMAIN refs) \X (DOMAIN refs) : pq[2] \in refs[pq[1]]})

InitStore ==
    /\ validPaths \in SUBSET AllPaths
    /\ references \in [validPaths -> SUBSET validPaths]
    /\ EdgeCount(references) <= MaxRefs
    /\ deriver \in [validPaths -> {Derivation, NoPath}]
    /\ \A p \in validPaths :
         deriver[p] # NoPath => p = Output /\ Derivation \in validPaths
    /\ request = NoRequest
    /\ engineCalls = << >>
    /\ engineThrew = FALSE
    /\ result = Error("none")

\* nix::StorePath::StorePath(std::string_view): the engine's check of a base
\* name; a malformed one throws BadStorePath.
StorePath(sv) ==
    IF /\ Len(sv) = HashLen + 2
       /\ \A i \in 1..HashLen : sv[i] \in HashChars
       /\ sv[HashLen + 1] = "-"
       /\ sv[HashLen + 2] \in NameChars
      THEN [threw |-> FALSE, value |-> [baseName |-> sv]]
      ELSE [threw |-> TRUE, error |-> "InvalidPathFormat"]

\* nix::StorePath::to_string(): the base name.
to_string(p) == p.baseName

\* static nix::StorePath store_path_from_rust(RBasePathSlice base_name)
\* (nix.cpp:32-35): a string_view over the slice, handed to nix::StorePath.
store_path_from_rust(base_name) ==
    LET sv == SubSeq(base_name.ptr, 1, base_name.len)
    IN  StorePath(sv)

\* nix::Store::queryPathInfo: the record of a present path; it throws for an
\* absent path, and on a backend failure (io = "fail").
Store_queryPathInfo(path, io) ==
    CASE io = "fail" -> [threw |-> TRUE, error |-> "StoreQueryError"]
      [] path \notin validPaths -> [threw |-> TRUE, error |-> "PathNotFound"]
      [] OTHER -> [threw |-> FALSE,
                   value |-> [path |-> path, references |-> references[path],
                              deriver |-> deriver[path]]]

\* The edges the traversal follows out of one node, per policy.
ClosureEdges(p, flip_direction, include_outputs, include_derivers) ==
    (IF flip_direction
       THEN {q \in validPaths : p \in references[q]}
       ELSE references[p])
    \cup (IF include_outputs THEN {q \in validPaths : deriver[q] = p} ELSE {})
    \cup (IF include_derivers /\ deriver[p] # NoPath THEN {deriver[p]} ELSE {})

\* The traversal: expand the frontier until nothing new is found.
RECURSIVE Traverse(_, _, _, _, _)
Traverse(visited, frontier, flip_direction, include_outputs, include_derivers) ==
    IF frontier = {}
      THEN visited
      ELSE LET found == UNION {ClosureEdges(p, flip_direction, include_outputs,
                                            include_derivers) : p \in frontier}
               new == found \ visited
           IN  Traverse(visited \cup new, new, flip_direction, include_outputs,
                        include_derivers)

\* nix::Store::computeFSClosure(path, out, flip, outputs, derivers): fills out
\* with the closure of a present path; it throws for an absent path, and on a
\* backend failure (io = "fail") with out holding what was visited (partial).
Store_computeFSClosure(path, flip_direction, include_outputs, include_derivers, io, partial) ==
    CASE path \notin validPaths ->
             [threw |-> TRUE, error |-> "PathNotFound", out |-> {}]
      [] io = "fail" ->
             [threw |-> TRUE, error |-> "StoreQueryError", out |-> partial]
      [] OTHER ->
             [threw |-> FALSE,
              out |-> Traverse({path}, {path}, flip_direction, include_outputs,
                               include_derivers)]

CharCode(c) ==
    CASE c = "-" -> 45 [] c = "/" -> 47 [] c = "a" -> 97 [] c = "e" -> 101

\* operator< of std::string.
RECURSIVE StringLess(_, _)
StringLess(x, y) ==
    CASE y = << >> -> FALSE
      [] x = << >> -> TRUE
      [] CharCode(Head(x)) # CharCode(Head(y)) -> CharCode(Head(x)) < CharCode(Head(y))
      [] OTHER -> StringLess(Tail(x), Tail(y))

\* The iteration of a std::set<nix::StorePath>: ascending base names.
RECURSIVE SetIteration(_)
SetIteration(set) ==
    IF set = {}
      THEN << >>
      ELSE LET first == CHOOSE x \in set :
                            \A y \in set \ {x} : StringLess(x.baseName, y.baseName)
           IN  <<first>> \o SetIteration(set \ {first})

\* for (auto&& elem : out) result.push_back(std::string(elem.to_string()))
\* (nix.cpp:104-107).
RECURSIVE PushBackAll(_, _)
PushBackAll(vec, elems) ==
    IF elems = << >>
      THEN vec
      ELSE PushBackAll(Append(vec, to_string(Head(elems))), Tail(elems))

\* The engine queried with the raw bytes, before they are validated.
query_path_info_QueriesFirst(base_name, io) ==
    LET r == Store_queryPathInfo([baseName |-> SubSeq(base_name.ptr, 1, base_name.len)], io)
        p == store_path_from_rust(base_name)
    IN  IF p.threw
          THEN [engineCalls |-> <<"queryPathInfo">>, engineThrew |-> r.threw,
                result |-> Error(p.error)]
          ELSE IF r.threw
                 THEN [engineCalls |-> <<"queryPathInfo">>, engineThrew |-> TRUE,
                       result |-> Error(r.error)]
                 ELSE [engineCalls |-> <<"queryPathInfo">>, engineThrew |-> FALSE,
                       result |-> Ok(r.value)]

\* std::unique_ptr<CPathInfo> CNixStore::query_path_info(RBasePathSlice)
\* (nix.cpp:92-97): what it makes the engine do and what it returns; an
\* exception of either call leaves the function at once.
query_path_info(base_name, io) ==
    LET p == store_path_from_rust(base_name)
    IN  IF p.threw
          THEN [engineCalls |-> << >>, engineThrew |-> FALSE, result |-> Error(p.error)]
          ELSE LET r == Store_queryPathInfo(p.value, io)
               IN  IF r.threw
                     THEN [engineCalls |-> <<"queryPathInfo">>, engineThrew |-> TRUE,
                           result |-> Error(r.error)]
                     ELSE [engineCalls |-> <<"queryPathInfo">>, engineThrew |-> FALSE,
                           result |-> Ok(r.value)]

\* The flags handed to the engine in the wrong order.
compute_fs_closure_SwapsFlags(base_name, flip_direction, include_outputs, include_derivers, io, partial) ==
    LET p == store_path_from_rust(base_name)
    IN  IF p.threw
          THEN [engineCalls |-> << >>, engineThrew |-> FALSE, result |-> Error(p.error)]
          ELSE LET r == Store_computeFSClosure(p.value, include_outputs, flip_direction,
                                               include_derivers, io, partial)
               IN  IF r.threw
                     THEN [engineCalls |-> <<"computeFSClosure">>, engineThrew |-> TRUE,
                           result |-> Error(r.error)]
                     ELSE [engineCalls |-> <<"computeFSClosure">>, engineThrew |-> FALSE,
                           result |-> Ok(PushBackAll(<< >>, SetIteration(r.out)))]

\* The engine's failure caught and the paths visited so far returned.
compute_fs_closure_ReturnsPartial(base_name, flip_direction, include_outputs, include_derivers, io, partial) ==
    LET p == store_path_from_rust(base_name)
    IN  IF p.threw
          THEN [engineCalls |-> << >>, engineThrew |-> FALSE, result |-> Error(p.error)]
          ELSE LET r == Store_computeFSClosure(p.value, flip_direction, include_outputs,
                                               include_derivers, io, partial)
               IN  [engineCalls |-> <<"computeFSClosure">>, engineThrew |-> r.threw,
                    result |-> Ok(PushBackAll(<< >>, SetIteration(r.out)))]

\* std::unique_ptr<std::vector<std::string>> CNixStore::compute_fs_closure(...)
\* (nix.cpp:99-109): the path is built from the slice while the arguments of
\* computeFSClosure are evaluated, the engine fills out, and out is copied
\* into the vector in its own order; an exception leaves the function at once.
compute_fs_closure(base_name, flip_direction, include_outputs, include_derivers, io, partial) ==
    LET p == store_path_from_rust(base_name)
    IN  IF p.threw
          THEN [engineCalls |-> << >>, engineThrew |-> FALSE, result |-> Error(p.error)]
          ELSE LET r == Store_computeFSClosure(p.value, flip_direction, include_outputs,
                                               include_derivers, io, partial)
               IN  IF r.threw
                     THEN [engineCalls |-> <<"computeFSClosure">>, engineThrew |-> TRUE,
                           result |-> Error(r.error)]
                     ELSE [engineCalls |-> <<"computeFSClosure">>, engineThrew |-> FALSE,
                           result |-> Ok(PushBackAll(<< >>, SetIteration(r.out)))]

\* What the engine may do when called: answer, or fail on the backend with
\* some of the store's paths visited. It is not called for a malformed name.
EngineBehaviours(bytes) ==
    IF StorePath(bytes).threw
      THEN {[io |-> "ok", partial |-> {}]}
      ELSE {[io |-> "ok", partial |-> {}]}
           \cup {[io |-> "fail", partial |-> v] : v \in SUBSET validPaths}

\* A caller's query_path_info request. No request changes the store, so each
\* behaviour makes one.
QueryPathInfo ==
    /\ request = NoRequest
    /\ \E bytes \in Inputs :
         \E engine \in {e \in EngineBehaviours(bytes) : e.partial = {}} :
           \E done \in {query_path_info([ptr |-> bytes, len |-> Len(bytes)], engine.io)} :
             /\ request' = [op |-> "query_path_info", base_name |-> bytes]
             /\ engineCalls' = done.engineCalls
             /\ engineThrew' = done.engineThrew
             /\ result' = done.result
    /\ UNCHANGED <<initVars, streamVars, infoVars>>
    /\ UNCHANGED <<validPaths, references, deriver>>

\* A caller's compute_fs_closure request.
ComputeFsClosure ==
    /\ request = NoRequest
    /\ \E bytes \in Inputs, flip \in BOOLEAN, outs \in BOOLEAN, drvs \in BOOLEAN :
         \E engine \in EngineBehaviours(bytes) :
           \E done \in {compute_fs_closure([ptr |-> bytes, len |-> Len(bytes)],
                                           flip, outs, drvs, engine.io, engine.partial)} :
             /\ request' = [op |-> "compute_fs_closure", base_name |-> bytes,
                            flip_direction |-> flip, include_outputs |-> outs,
                            include_derivers |-> drvs]
             /\ engineCalls' = done.engineCalls
             /\ engineThrew' = done.engineThrew
             /\ result' = done.result
    /\ UNCHANGED <<initVars, streamVars, infoVars>>
    /\ UNCHANGED <<validPaths, references, deriver>>

NextStore ==
    \/ QueryPathInfo
    \/ ComputeFsClosure

\* The store part at rest: an empty store, no request made.
QuietStore ==
    /\ validPaths = {}
    /\ references = << >>
    /\ deriver = << >>
    /\ request = NoRequest
    /\ engineCalls = << >>
    /\ engineThrew = FALSE
    /\ result = Error("none")

\* ------------------------------------------ CPathInfo::sigs / CPathInfo::references
\* The signature strings of the model's records.
AllSigs == {<<"a">>, <<"e">>, <<"a", "e">>}

InitInfo ==
    /\ pi \in [sigs : SUBSET AllSigs, references : SUBSET AllPaths]
    /\ wrapped = pi
    /\ heap = << >>
    /\ calls = << >>

\* The iteration of a std::set<std::string>: ascending.
RECURSIVE StringSetIteration(_)
StringSetIteration(set) ==
    IF set = {}
      THEN << >>
      ELSE LET first == CHOOSE x \in set : \A y \in set \ {x} : StringLess(x, y)
           IN  <<first>> \o StringSetIteration(set \ {first})

\* for (auto&& elem : this->pi->sigs) result.push_back(std::string(elem))
\* (nix.cpp:62-64).
RECURSIVE PushBackStrings(_, _)
PushBackStrings(vec, elems) ==
    IF elems = << >>
      THEN vec
      ELSE PushBackStrings(Append(vec, Head(elems)), Tail(elems))

\* std::make_unique<std::vector<std::string>>(result): a copy of result in a
\* vector of its own, at a new address.
make_unique(vec) == [address |-> Len(heap) + 1, heap |-> Append(heap, vec)]

\* CPathInfo::sigs() (nix.cpp:60-66).
CPathInfo_sigs ==
    make_unique(PushBackStrings(<< >>, StringSetIteration(pi.sigs)))

\* references() walking the signatures.
CPathInfo_references_WalksSigs ==
    make_unique(PushBackStrings(<< >>, StringSetIteration(pi.sigs)))

\* CPathInfo::references() (nix.cpp:68-74).
CPathInfo_references ==
    make_unique(PushBackAll(<< >>, SetIteration(pi.references)))

\* The caller calls sigs().
CallSigs ==
    /\ Len(calls) < MaxCalls
    /\ \E r \in {CPathInfo_sigs} :
         /\ heap' = r.heap
         /\ calls' = Append(calls, [accessor |-> "sigs", address |-> r.address,
                                    returned |-> r.heap[r.address]])
    /\ UNCHANGED <<initVars, streamVars, storeVars>>
    /\ UNCHANGED <<pi, wrapped>>

\* The caller calls references().
CallReferences ==
    /\ Len(calls) < MaxCalls
    /\ \E r \in {CPathInfo_references} :
         /\ heap' = r.heap
         /\ calls' = Append(calls, [accessor |-> "references", address |-> r.address,
                                    returned |-> r.heap[r.address]])
    /\ UNCHANGED <<initVars, streamVars, storeVars>>
    /\ UNCHANGED <<pi, wrapped>>

\* The caller changes a vector it was handed: clears it, or overwrites its
\* first entry.
ModifyReturned ==
    /\ \E a \in DOMAIN heap :
         \/ /\ heap[a] # << >>
            /\ heap' = [heap EXCEPT ![a] = << >>]
         \/ /\ heap[a] # << >>
            /\ heap[a][1] # <<"/">>
            /\ heap' = [heap EXCEPT ![a][1] = <<"/">>]
    /\ UNCHANGED <<initVars, streamVars, storeVars>>
    /\ UNCHANGED <<pi, wrapped, calls>>

NextInfo ==
    \/ CallSigs
    \/ CallReferences
    \/ ModifyReturned

\* The path-info part at rest.
QuietInfo ==
    /\ pi = [sigs |-> {}, references |-> {}]
    /\ wrapped = pi
    /\ heap = << >>
    /\ calls = << >>

\* ------------------------------------------------------------ specifications
InitOfCtor == InitCtor /\ QuietStream /\ QuietStore /\ QuietInfo

InitOfStream == InitStream /\ QuietCtor /\ QuietStore /\ QuietInfo

InitOfStore == InitStore /\ QuietCtor /\ QuietStream /\ QuietInfo

InitOfInfo == InitInfo /\ QuietCtor /\ QuietStream /\ QuietStore

SpecInit == InitOfCtor /\ [][NextCtor]_vars

SpecStream == InitOfStream /\ [][NextStream]_vars

SpecStore == InitOfStore /\ [][NextStore]_vars

SpecInfo == InitOfInfo /\ [][NextInfo]_vars

\* The producer runs on a thread of its own, so its next step is eventually
\* taken; a consumer that is still draining is eventually polled.
SpecStreamFair == SpecStream /\ WF_vars(ProducerStep) /\ WF_vars(Recv)

\* ------------------------------------------------ claims on the constructor
\* Threads inside nix::initNix.
InsideInitNix == {t \in Threads : pc[t] = "init"}

\* C1 as stated: nix::initNix runs once per process however many handles are
\* built: it is called at most once, only the first holder of the global lock
\* finds the flag clear, and no two threads are inside it together.
C1_InitNixCalledOnce ==
    /\ initCalls <= 1
    /\ \A i \in 2..Len(sawDone) : sawDone[i].done
    /\ Cardinality(InsideInitNix) <= 1

\* C1 amended: nix::initNix returns normally at most once per process, and has
\* done so exactly once whenever a constructor is past the guard or a store is
\* open; a lock holder runs it exactly when no call has returned normally yet
\* (so a call that threw is repeated by the next holder) and skips it
\* otherwise; no two threads are ever inside it together.
C1_InitNixCompletesOnce ==
    /\ initReturns <= 1
    /\ Cardinality(InsideInitNix) <= 1
    /\ \A i \in 1..Len(sawDone) : sawDone[i].done <=> (sawDone[i].returns = 1)
    /\ initCalls = Cardinality({i \in 1..Len(sawDone) : ~sawDone[i].done})
    /\ \A t \in Threads :
         (pc[t] \in {"set", "open"} \/ store[t] = "open") => initReturns = 1

\* Two handles were built one after the other or concurrently, the second
\* holder of the lock skipped the routine.
C1_Witness ==
    /\ \A t \in Threads : outcome[t] = "ok" /\ store[t] = "open"
    /\ Len(sawDone) >= 2
    /\ initCalls = 1

C10_FlagInv ==
    /\ g_init_nix_done => initReturns >= 1
    /\ \A t \in Threads : outcome[t] = "init_failed" /\ pc[t] = "idle" => store[t] = "none"

C10_FlagStep ==
    /\ g_init_nix_done => g_init_nix_done'
    /\ g_init_nix_done => initCalls' = initCalls
    /\ ~g_init_nix_done /\ g_init_nix_done' => \E t \in Threads : pc[t] = "set"
    /\ \A t \in Threads :
         /\ (pc[t] = "init" /\ pc'[t] = "idle") =>
               /\ outcome'[t] = "init_failed"
               /\ store'[t] = "none"
               /\ g_init_nix_mutex = t /\ g_init_nix_mutex' = NoThread
               /\ ~g_init_nix_done'
         /\ (pc[t] = "check" /\ pc'[t] # "check" /\ ~g_init_nix_done) =>
               pc'[t] = "init" /\ initCalls' = initCalls + 1

\* C10: g_init_nix_done is set only after nix::initNix returned normally and
\* is never reset; when initNix throws the construction ends without a store,
\* the mutex is released and the flag stays false, so the next constructor
\* that tests the flag calls initNix again; once the flag is true no
\* constructor calls initNix.
C10_FlagOnlyAfterNormalReturn == [](C10_FlagInv) /\ [][C10_FlagStep]_vars

\* A construction failed inside initNix, a later one called initNix again and
\* set the flag.
C10_Witness ==
    /\ \E t \in Threads : outcome[t] = "init_failed"
    /\ initCalls >= 2
    /\ g_init_nix_done

\* ------------------------------------------------ claims on the stream bridge
ChunkMsgs(chunks) == [i \in 1..Len(chunks) |-> ChunkMsg(chunks[i])]

CountOf(type, msgs) == Cardinality({i \in 1..Len(msgs) : msgs[i].type = type})

TerminalIsLast(msgs) ==
    \A i \in 1..Len(msgs) : msgs[i].type \in {"eof", "error"} => i = Len(msgs)

ProducerEnded == prod \in {"done", "failed", "cancelled"}

ConsumerEnded == cons \in {"ok", "err", "abandoned"}

\* C2: in a transfer the engine does not fail and the consumer does not
\* abandon, the messages received and in flight are, chunk for chunk and in
\* order, the chunks written to the sink (zero-length ones included), followed
\* by the one end-of-stream message once eof() was called; the consumer
\* resolves with success only on that message, never on an empty chunk.
C2_ChunksThenOneEof ==
    /\ (~rxDropped /\ prod \in {"idle", "writing", "eof", "done"}) =>
          received \o chan =
              ChunkMsgs(produced) \o (IF prod = "done" THEN <<EofMsg>> ELSE << >>)
    /\ cons = "ok" =>
          /\ prod = "done"
          /\ received = ChunkMsgs(produced) \o <<EofMsg>>

\* A complete transfer with a zero-length chunk in the middle.
C2_Witness ==
    /\ cons = "ok"
    /\ produced = << <<1>>, << >>, <<1>> >>

\* C3: once the engine has failed, no end-of-stream message exists and the
\* consumer never resolves with success; exactly one error message is sent,
\* it is the last message the consumer receives, and the consumer that has
\* drained the channel has resolved with the error.
C3_OneTerminalError ==
    /\ prod \in {"failing", "failed"} =>
          /\ CountOf("eof", received \o chan) = 0
          /\ cons # "ok"
    /\ (prod = "failed" /\ ~rxDropped) => CountOf("error", received \o chan) = 1
    /\ CountOf("error", received \o chan) <= 1
    /\ TerminalIsLast(received \o chan)
    /\ cons = "err" <=> (received # << >> /\ received[Len(received)] = ErrorMsg)
    /\ (prod = "failed" /\ ~rxDropped /\ chan = << >>) => cons = "err"
    /\ cons = "err" => /\ prod = "failed"
                       /\ received = ChunkMsgs(produced) \o <<ErrorMsg>>

\* The engine failed after two chunks and the consumer resolved with the error.
C3_Witness ==
    /\ cons = "err"
    /\ Len(produced) = 2
    /\ Len(received) = 3

C4_Safe ==
    /\ Len(chan) <= ChannelCapacity
    /\ cons \in {"ok", "err"} =>
          /\ received # << >>
          /\ received[Len(received)].type \in {"eof", "error"}
    /\ (ProducerEnded /\ ConsumerEnded) \/ ENABLED NextStream
    /\ (cons = "draining" /\ Len(chan) = ChannelCapacity) => ENABLED Recv

\* C4: the channel never holds more than its capacity, a full channel leaves
\* the consumer able to receive, no state short of the end is stuck, the
\* consumer resolves only on a terminal message, and under fair scheduling a
\* consumer that does not abandon eventually resolves.
C4_NoDeadlockResolves == [](C4_Safe) /\ <>(ConsumerEnded)

\* A transfer of more chunks than the channel holds has resolved.
C4_Witness ==
    /\ cons = "ok"
    /\ Len(produced) > ChannelCapacity

\* C5: after the consumer dropped the receiving end, at most one more chunk is
\* handed to RustSink::operator(): that send fails, operator() throws and the
\* producer ends; the producer always ends once the consumer is gone.
C5_AbandonStopsProducer ==
    /\ [](callsAfterDrop <= 1)
    /\ [](prod = "cancelled" <=> (sinkThrew /\ callsAfterDrop = 1))
    /\ (rxDropped ~> ProducerEnded)

\* The consumer left mid-transfer and the producer stopped short of the archive.
C5_Witness ==
    /\ prod = "cancelled"
    /\ Len(received) = 1
    /\ Len(produced) = 2
    /\ Len(produced) < MaxChunks

\* ------------------------------------------------------ claims on the queries
RequestedPath == [baseName |-> request.base_name]

Malformed(bytes) == StorePath(bytes).threw

Elements(vec) == {vec[i] : i \in 1..Len(vec)}

\* A reference edge, in the direction asked for.
RefEdge(p, q, flip_direction) ==
    IF flip_direction THEN p \in references[q] ELSE q \in references[p]

\* The chains of reference edges through the store.
RefChains(flip_direction) ==
    {c \in UNION {[1..k -> validPaths] : k \in 1..Cardinality(validPaths)} :
        \A i \in 1..(Len(c) - 1) : RefEdge(c[i], c[i + 1], flip_direction)}

\* The paths some reference chain from root ends in (root, by the chain of one).
OnChainFrom(root, flip_direction) ==
    {c[Len(c)] : c \in {d \in RefChains(flip_direction) : d[1] = root}}

\* C6: a compute_fs_closure that returns does so for a present root, with one
\* string per path of the set; the set holds root and every path on a
\* reference chain from root (to root, when flip_direction is set), and with
\* include_outputs and include_derivers false it holds nothing else.
C6_ClosureIsReachableSet ==
    (request.op = "compute_fs_closure" /\ result.kind = "ok") =>
        LET chain == {to_string(q) : q \in OnChainFrom(RequestedPath,
                                                       request.flip_direction)}
        IN  /\ RequestedPath \in validPaths
            /\ to_string(RequestedPath) \in Elements(result.value)
            /\ chain \subseteq Elements(result.value)
            /\ Len(result.value) = Cardinality(Elements(result.value))
            /\ (~request.include_outputs /\ ~request.include_derivers) =>
                   Elements(result.value) = chain

\* A reverse closure of three paths along a chain of two edges, in a store
\* where a deriver edge is left out of it.
C6_Witness ==
    /\ request.op = "compute_fs_closure"
    /\ request.flip_direction /\ ~request.include_outputs /\ ~request.include_derivers
    /\ result.kind = "ok"
    /\ Len(result.value) = 3
    /\ Cardinality({q \in validPaths : RequestedPath \in references[q]}) = 1
    /\ EdgeCount(references) = 2

\* C7: a request with a malformed byte sequence fails with InvalidPathFormat
\* and makes no engine call; a well-formed one makes exactly the one engine
\* call of its operation.
C7_MalformedRejectedBeforeEngine ==
    request.op # "none" =>
        IF Malformed(request.base_name)
          THEN /\ result = Error("InvalidPathFormat")
               /\ engineCalls = << >>
               /\ ~engineThrew
          ELSE engineCalls =
                   <<IF request.op = "query_path_info" THEN "queryPathInfo"
                                                       ELSE "computeFSClosure">>

\* A query_path_info with a bad hash character, on a store that is not empty.
C7_Witness ==
    /\ request.op = "query_path_info"
    /\ request.base_name = BaseName("e", "a")
    /\ result = Error("InvalidPathFormat")
    /\ validPaths # {}

\* C8: when the engine call throws, the request returns an error and no
\* value; a request for an absent path fails with PathNotFound; a value is
\* returned only when the engine returned, for a present path.
C8_EngineFailureFailsTheCall ==
    request.op # "none" =>
        /\ engineThrew => result \in {Error("PathNotFound"), Error("StoreQueryError")}
        /\ (~Malformed(request.base_name) /\ RequestedPath \notin validPaths) =>
               engineThrew /\ result.kind = "error"
        /\ result.kind = "ok" => ~engineThrew /\ RequestedPath \in validPaths
        /\ (result.kind = "ok" /\ request.op = "query_path_info") =>
               result.value.path = RequestedPath

\* A closure whose traversal failed on the backend, from a present root that
\* has references.
C8_Witness ==
    /\ request.op = "compute_fs_closure"
    /\ engineThrew
    /\ result = Error("StoreQueryError")
    /\ RequestedPath \in validPaths
    /\ references[RequestedPath] # {}

\* ----------------------------------------------- claims on the path-info view
Ascending(vec) == \A k \in 1..(Len(vec) - 1) : StringLess(vec[k], vec[k + 1])

\* C9: every accessor call returned a vector at an address of its own, with
\* one entry per element of the record's set, in the set's ascending
\* iteration order, whatever the caller did to the vectors returned before;
\* the wrapped record is as it was built.
C9_AccessorsCopyInOrder ==
    /\ pi = wrapped
    /\ \A i \in 1..Len(calls) :
         LET source == IF calls[i].accessor = "sigs"
                         THEN pi.sigs
                         ELSE {to_string(p) : p \in pi.references}
         IN  /\ Elements(calls[i].returned) = source
             /\ Len(calls[i].returned) = Cardinality(source)
             /\ Ascending(calls[i].returned)
             /\ \A j \in 1..(i - 1) : calls[j].address # calls[i].address

\* references() called twice on a record of two references, the first vector
\* changed by the caller in between.
C9_Witness ==
    /\ Len(calls) = 2
    /\ calls[1].accessor = "references" /\ calls[2].accessor = "references"
    /\ Len(calls[1].returned) = 2
    /\ calls[2].returned = calls[1].returned
    /\ heap[calls[1].address] # calls[1].returned
    /\ heap[calls[2].address] = calls[2].returned

====
